---- MODULE Spec2Model ----
(***************************************************************************)
(* A model of src/db/db.py: the Database singleton (double-checked locking *)
(* in __new__), its teardown (__exit__, __del__), the schema bootstrap and *)
(* the seven store operations on the four tables of db.sqlite3.            *)
(***************************************************************************)
EXTENDS Integers, Sequences, FiniteSets, TLC

\* ------------------------------------------------------------------ bounds
NumThreads == 2      \* caller threads that may race in Database()
MaxClock == 1        \* readings of datetime.now() are 0..MaxClock
MaxServers == 2      \* rows the Servers table may hold
MaxChannels == 1     \* rows the Channels table may hold
MaxMappings == 2     \* rows the UserChannelMapping table may hold

Threads == 1..NumThreads
Handles == {"alice", "bob"}
ServerNames == {"S"}
ChannelNames == {"C"}
\* the server_id and channel_id arguments tried; a row with that id may or
\* may not exist when the call is made
ServerIds == {1, 2}
ChannelIds == {1}
\* the solved_problems arguments tried: empty, one element, two orders of
\* the same two elements, a negative and a multi-digit identifier
SolvedInputs == {<<>>, <<1001>>, <<3, 12>>, <<12, 3>>, <<-7>>}

None == 0            \* Python's None for Optional[int] / Optional[Database]

VARIABLES
    instance,     \* Database._instance: None or the id of the instance
    dcl,          \* Database._dcl
    lock,         \* Database._lock: None when free, else the holding thread
    connection,   \* per instance: "unset", "open" or "closed" (self.connection)
    cursor,       \* per instance: whether self.cursor has been assigned
    pc,           \* per thread: the line of __new__ it is at, or "out"
    ref,          \* per thread: what its last completed Database() returned
    returned,     \* every value any Database() call has returned
    connects,     \* number of sqlite3.connect calls made
    bootstraps,   \* number of _initialize_database runs
    closes,       \* number of times a connection went from open to closed
    alive,        \* FALSE once the interpreter has torn the instance down
    schema,       \* whether db.sqlite3 holds the four tables
    Users, Servers, Channels, UserChannelMapping,   \* the rows, in rowid order
    clock,        \* the value datetime.now() returns
    last,         \* the most recent call: its name, handle, exception, result
    frame,        \* per thread: the arguments and locals of its unfinished call
    resultset,    \* the result set waiting on the one shared cursor
    pending       \* the threads whose writes the connection has not committed

tables == <<schema, Users, Servers, Channels, UserChannelMapping>>
class == <<instance, dcl, lock, connection, cursor>>
counts == <<connects, bootstraps, closes>>
\* what a call that runs to completion leaves as it found it: no unfinished
\* call, the result set consumed, nothing uncommitted
stmt == <<frame, resultset, pending>>
vars == <<instance, dcl, lock, connection, cursor, pc, ref, returned, connects,
          bootstraps, closes, alive, schema, Users, Servers, Channels,
          UserChannelMapping, clock, last, frame, resultset, pending>>

\* the record kept of a call: its name, its string argument (handle or name),
\* its integer arguments, the exception it raised ("none" when it returned),
\* the Optional[int] it returned and the rows it returned
Call(op, str, ints, err, id, rows) ==
    [op |-> op, str |-> str, ints |-> ints, err |-> err, id |-> id, rows |-> rows]

\* the locals of a call in progress: the method, its handle argument, its
\* integer arguments and the user_id the lookup gave it; own keeps what the
\* call's own SELECT found, for comparison with what it fetches
Frame(op, handle, ints, own, user_id) ==
    [op |-> op, handle |-> handle, ints |-> ints, own |-> own, user_id |-> user_id]
NoFrame == Frame("none", "", <<>>, None, None)

\* -------------------------------------------------- json.dumps / json.loads
DigitChars == <<"0", "1", "2", "3", "4", "5", "6", "7", "8", "9">>

RECURSIVE NatStr(_)
NatStr(n) == IF n < 10 THEN <<DigitChars[n + 1]>>
             ELSE Append(NatStr(n \div 10), DigitChars[(n % 10) + 1])

IntStr(n) == IF n < 0 THEN <<"-">> \o NatStr(-n) ELSE NatStr(n)

RECURSIVE Items(_)
Items(s) == IF s = <<>> THEN <<>>
            ELSE IF Len(s) = 1 THEN IntStr(s[1])
            ELSE IntStr(s[1]) \o <<",", " ">> \o Items(Tail(s))

\* json.dumps of a list of ints: "[1, 2, 3]", one character per element
Dumps(s) == <<"[">> \o Items(s) \o <<"]">>

DigitVal(c) == CHOOSE d \in 0..9 : DigitChars[d + 1] = c

\* json.loads of such a text: scan it left to right, num is the number being
\* read (None when between numbers), neg its sign, acc the list so far
RECURSIVE Scan(_, _, _, _, _)
Scan(text, i, num, neg, acc) ==
    IF i > Len(text) THEN acc
    ELSE LET c == text[i] IN
         IF c = "-" THEN Scan(text, i + 1, num, TRUE, acc)
         ELSE IF c \in {"[", " "} THEN Scan(text, i + 1, num, neg, acc)
         ELSE IF c \in {",", "]"} THEN
              IF num = <<>> THEN Scan(text, i + 1, <<>>, FALSE, acc)
              ELSE Scan(text, i + 1, <<>>, FALSE,
                        Append(acc, IF neg THEN -num[1] ELSE num[1]))
         ELSE Scan(text, i + 1,
                   IF num = <<>> THEN <<DigitVal(c)>> ELSE <<num[1] * 10 + DigitVal(c)>>,
                   neg, acc)

Loads(text) == Scan(text, 1, <<>>, FALSE, <<>>)

\* ------------------------------------------------------------------- Init
Init ==
    /\ instance = None
    /\ dcl = FALSE
    /\ lock = None
    /\ connection = <<>>
    /\ cursor = <<>>
    /\ pc = [t \in Threads |-> "out"]
    /\ ref = [t \in Threads |-> None]
    /\ returned = {}
    /\ connects = 0
    /\ bootstraps = 0
    /\ closes = 0
    /\ alive = TRUE
    /\ schema = FALSE
    /\ Users = <<>>
    /\ Servers = <<>>
    /\ Channels = <<>>
    /\ UserChannelMapping = <<>>
    /\ clock = 0
    /\ last = Call("none", "", <<>>, "none", None, <<>>)
    /\ frame = [t \in Threads |-> NoFrame]
    /\ resultset = <<>>
    /\ pending = {}

\* ------------------------------------------------- Database.__new__ (16-29)
\* line 21, first operand: the unsynchronised read of cls._instance
New21NoFirstCheck(t) ==
    /\ alive /\ pc[t] = "out"
    /\ pc' = [pc EXCEPT ![t] = "l22"]
    /\ UNCHANGED <<stmt, class, ref, returned, counts, alive, tables, clock, last>>
New21(t) ==
    /\ alive /\ pc[t] = "out"
    /\ pc' = [pc EXCEPT ![t] = IF instance = None THEN "l21dcl" ELSE "l29"]
    /\ UNCHANGED <<stmt, class, ref, returned, counts, alive, tables, clock, last>>

\* line 21, second operand: the unsynchronised read of cls._dcl
New21dcl(t) ==
    /\ alive /\ pc[t] = "l21dcl"
    /\ pc' = [pc EXCEPT ![t] = IF ~dcl THEN "l22" ELSE "l29"]
    /\ UNCHANGED <<stmt, class, ref, returned, counts, alive, tables, clock, last>>

\* line 22: with cls._lock (blocks while another thread holds it)
New22(t) ==
    /\ alive /\ pc[t] = "l22"
    /\ lock = None
    /\ lock' = t
    /\ pc' = [pc EXCEPT ![t] = "l23"]
    /\ UNCHANGED <<stmt, instance, dcl, connection, cursor, ref, returned, counts,
                   alive, tables, clock, last>>

\* line 23: the re-check under the lock; leaving the with block releases it
New23NoRecheck(t) ==
    /\ alive /\ pc[t] = "l23"
    /\ pc' = [pc EXCEPT ![t] = "l24"]
    /\ UNCHANGED <<stmt, class, ref, returned, counts, alive, tables, clock, last>>
New23(t) ==
    /\ alive /\ pc[t] = "l23"
    /\ IF instance = None
       THEN /\ pc' = [pc EXCEPT ![t] = "l24"]
            /\ lock' = lock
       ELSE /\ pc' = [pc EXCEPT ![t] = "l29"]
            /\ lock' = None
    /\ UNCHANGED <<stmt, instance, dcl, connection, cursor, ref, returned, counts,
                   alive, tables, clock, last>>

\* line 24: cls._instance = super().__new__(cls), an object with no attributes
New24(t) ==
    /\ alive /\ pc[t] = "l24"
    /\ connection' = Append(connection, "unset")
    /\ cursor' = Append(cursor, FALSE)
    /\ instance' = Len(connection) + 1
    /\ pc' = [pc EXCEPT ![t] = "l25"]
    /\ UNCHANGED <<stmt, dcl, lock, ref, returned, counts, alive, tables, clock, last>>

\* line 25: cls._instance.connection = sqlite3.connect(...)
New25(t) ==
    /\ alive /\ pc[t] = "l25"
    /\ connection' = [connection EXCEPT ![instance] = "open"]
    /\ connects' = connects + 1
    /\ pc' = [pc EXCEPT ![t] = "l26"]
    /\ UNCHANGED <<stmt, instance, dcl, lock, cursor, ref, returned, bootstraps,
                   closes, alive, tables, clock, last>>

\* an exception inside the with block: the lock is released and the call
\* ends without returning (lines 22-28)
NewRaises(t, err) ==
    /\ lock' = None
    /\ pc' = [pc EXCEPT ![t] = "out"]
    /\ last' = Call("Database", "", <<>>, err, None, <<>>)
    /\ UNCHANGED <<stmt, instance, dcl, connection, cursor, ref, returned, counts,
                   alive, tables, clock>>

\* line 26: cls._instance.cursor = cls._instance.connection.cursor(); sqlite3
\* refuses a cursor on a connection another thread has closed meanwhile
New26(t) ==
    /\ alive /\ pc[t] = "l26"
    /\ IF connection[instance] = "closed"
       THEN NewRaises(t, "ProgrammingError")
       ELSE /\ cursor' = [cursor EXCEPT ![instance] = TRUE]
            /\ pc' = [pc EXCEPT ![t] = "l27"]
            /\ UNCHANGED <<stmt, instance, dcl, lock, connection, ref, returned,
                           counts, alive, tables, clock, last>>

\* _initialize_database (49-83): CREATE TABLE IF NOT EXISTS for the four
\* tables, then commit; existing tables and their rows are left as they are
InitializeDatabaseDropsRows ==
    /\ schema' = TRUE
    /\ Users' = <<>>
    /\ UNCHANGED <<stmt, Servers, Channels, UserChannelMapping>>
InitializeDatabase ==
    /\ schema' = TRUE
    /\ UNCHANGED <<stmt, Users, Servers, Channels, UserChannelMapping>>

\* line 27: cls._instance._initialize_database()
New27(t) ==
    /\ alive /\ pc[t] = "l27"
    /\ IF connection[instance] = "closed"
       THEN NewRaises(t, "ProgrammingError")
       ELSE /\ InitializeDatabase
            /\ bootstraps' = bootstraps + 1
            /\ pc' = [pc EXCEPT ![t] = "l28"]
            /\ UNCHANGED <<stmt, class, ref, returned, connects, closes, alive,
                           clock, last>>

\* line 28: cls._dcl = True, and the with block ends
New28(t) ==
    /\ alive /\ pc[t] = "l28"
    /\ dcl' = TRUE
    /\ lock' = None
    /\ pc' = [pc EXCEPT ![t] = "l29"]
    /\ UNCHANGED <<stmt, instance, connection, cursor, ref, returned, counts, alive,
                   tables, clock, last>>

\* line 29: return cls._instance
New29(t) ==
    /\ alive /\ pc[t] = "l29"
    /\ ref' = [ref EXCEPT ![t] = instance]
    /\ returned' = returned \cup {instance}
    /\ pc' = [pc EXCEPT ![t] = "out"]
    /\ last' = Call("Database", "", <<>>, "none", instance, <<>>)
    /\ UNCHANGED <<stmt, class, counts, alive, tables, clock>>

\* ----------------------------------------------- __exit__ / __del__ (31-47)
\* try: self.connection.close()  except AttributeError: pass
\* close() on a closed sqlite3 connection does nothing
CloseUnguarded(o) ==
    IF connection[o] = "unset" THEN "AttributeError" ELSE "none"
CloseError(o) ==
    LET raised == IF connection[o] = "unset" THEN "AttributeError" ELSE "none"
    IN  IF raised = "AttributeError" THEN "none" ELSE raised

Close(o) ==
    /\ connection' = [connection EXCEPT ![o] = IF @ = "unset" THEN @ ELSE "closed"]
    /\ closes' = IF connection[o] = "open" THEN closes + 1 ELSE closes

\* __exit__ (42-47), called by a thread on the instance it was given; the
\* call record keeps the state the connection was found in
ExitForgetsInstance(t) ==
    /\ alive /\ pc[t] = "out" /\ ref[t] # None
    /\ Close(ref[t])
    /\ instance' = None
    /\ dcl' = FALSE
    /\ last' = Call("__exit__", connection[ref[t]], <<>>, CloseError(ref[t]), None, <<>>)
    /\ UNCHANGED <<stmt, lock, cursor, pc, ref, returned, connects,
                   bootstraps, alive, tables, clock>>
Exit(t) ==
    /\ alive /\ pc[t] = "out" /\ ref[t] # None
    /\ Close(ref[t])
    /\ last' = Call("__exit__", connection[ref[t]], <<>>, CloseError(ref[t]), None, <<>>)
    /\ UNCHANGED <<stmt, instance, dcl, lock, cursor, pc, ref, returned, connects,
                   bootstraps, alive, tables, clock>>

\* __del__ (31-36): the class holds the instance, so it is torn down only
\* when the interpreter exits, after every thread has left its call
Del ==
    /\ alive /\ instance # None
    /\ \A t \in Threads : pc[t] = "out"
    /\ Close(instance)
    /\ alive' = FALSE
    /\ last' = Call("__del__", connection[instance], <<>>, CloseError(instance), None, <<>>)
    /\ UNCHANGED <<stmt, instance, dcl, lock, cursor, pc, ref, returned, connects,
                   bootstraps, tables, clock>>

\* the program is run again (198-199) after the interpreter has exited: the
\* class attributes are those of a fresh import (12-14), what was written and
\* not committed is gone, db.sqlite3 is as the last process left it
Restart ==
    /\ ~alive
    /\ alive' = TRUE
    /\ instance' = None
    /\ dcl' = FALSE
    /\ lock' = None
    /\ connection' = <<>>
    /\ cursor' = <<>>
    /\ pc' = [t \in Threads |-> "out"]
    /\ ref' = [t \in Threads |-> None]
    /\ returned' = {}
    /\ connects' = 0
    /\ bootstraps' = 0
    /\ closes' = 0
    /\ frame' = [t \in Threads |-> NoFrame]
    /\ resultset' = <<>>
    /\ pending' = {}
    /\ last' = Call("none", "", <<>>, "none", None, <<>>)
    /\ UNCHANGED <<tables, clock>>

\* datetime.now() moves on
Tick ==
    /\ alive /\ clock < MaxClock
    /\ clock' = clock + 1
    /\ UNCHANGED <<stmt, class, pc, ref, returned, counts, alive, tables, last>>

\* ------------------------------------------------------ the store operations
\* what self.cursor.execute raises before it touches a row: no cursor
\* attribute yet, a closed connection, or tables not created yet
ExecuteError(o) ==
    IF ~cursor[o] THEN "AttributeError"
    ELSE IF connection[o] = "closed" THEN "ProgrammingError"
    ELSE IF ~schema THEN "OperationalError"
    ELSE "none"

\* id INTEGER PRIMARY KEY AUTOINCREMENT (53, 62, 67, 74): one more than the
\* largest id the table has held; no row is ever deleted
AutoIncrementFirst(table) == 1
AutoIncrement(table) == IF table = <<>> THEN 1 ELSE table[Len(table)].id + 1

\* a thread calls an operation on the instance Database() gave it
Calls(t) == alive /\ pc[t] = "out" /\ ref[t] # None

\* SELECT id FROM Users WHERE handle = ?; fetchone; result[0] if result else None
SelectId(handle) ==
    LET result == SelectSeq(Users, LAMBDA u : u.handle = handle)
    IN  IF result # <<>> THEN result[1].id ELSE None

\* handle TEXT UNIQUE NOT NULL (54)
UniqueNotEnforced(handle) == FALSE
UniqueViolation(handle) == \E i \in 1..Len(Users) : Users[i].handle = handle

\* the row add_user inserts (93-96)
NewUser(handle) ==
    [id |-> AutoIncrement(Users), handle |-> handle, solved_count |-> 0,
     solved_problems |-> Dumps(<<>>), last_check_time |-> clock,
     last_update_time |-> clock]

\* add_user (85-97)
add_user(t, handle) ==
    /\ Calls(t)
    /\ LET err == IF ExecuteError(ref[t]) # "none" THEN ExecuteError(ref[t])
                  ELSE IF UniqueViolation(handle) THEN "IntegrityError"
                  ELSE "none"
       IN  /\ Users' = IF err = "none" THEN Append(Users, NewUser(handle)) ELSE Users
           /\ last' = Call("add_user", handle, <<>>, err, None, <<>>)
    /\ UNCHANGED <<stmt, class, pc, ref, returned, counts, alive, schema, Servers,
                   Channels, UserChannelMapping, clock>>

\* add_server (99-110)
add_server(t, name) ==
    /\ Calls(t)
    /\ LET err == ExecuteError(ref[t])
       IN  /\ err = "none" => Len(Servers) < MaxServers
           /\ Servers' = IF err = "none"
                         THEN Append(Servers, [id |-> AutoIncrement(Servers), name |-> name])
                         ELSE Servers
           /\ last' = Call("add_server", name, <<>>, err, None, <<>>)
    /\ UNCHANGED <<stmt, class, pc, ref, returned, counts, alive, schema, Users,
                   Channels, UserChannelMapping, clock>>

\* add_channel (112-124); the FOREIGN KEY of line 70 is declared, not enforced
add_channel(t, name, server_id) ==
    /\ Calls(t)
    /\ LET err == ExecuteError(ref[t])
       IN  /\ err = "none" => Len(Channels) < MaxChannels
           /\ Channels' = IF err = "none"
                          THEN Append(Channels, [id |-> AutoIncrement(Channels),
                                                 name |-> name, server_id |-> server_id])
                          ELSE Channels
           /\ last' = Call("add_channel", name, <<server_id>>, err, None, <<>>)
    /\ UNCHANGED <<stmt, class, pc, ref, returned, counts, alive, schema, Users,
                   Servers, UserChannelMapping, clock>>

\* the row map_user_to_channel inserts (137-140); by is not a column: it
\* remembers the handle the call was given
NewMappingSwapped(user_id, channel_id, server_id, handle) ==
    [id |-> AutoIncrement(UserChannelMapping), user_id |-> user_id,
     channel_id |-> server_id, server_id |-> channel_id, by |-> handle]
NewMapping(user_id, channel_id, server_id, handle) ==
    [id |-> AutoIncrement(UserChannelMapping), user_id |-> user_id,
     channel_id |-> channel_id, server_id |-> server_id, by |-> handle]

\* map_user_to_channel (126-143)
MapInsertsRegardless(user_id) == TRUE
MapFound(user_id) == user_id # None

map_user_to_channel(t, handle, channel_id, server_id) ==
    /\ Calls(t)
    /\ LET user_id == SelectId(handle)
           err == IF ExecuteError(ref[t]) # "none" THEN ExecuteError(ref[t])
                  ELSE IF MapFound(user_id) THEN "none"
                  ELSE "ValueError"
           inserts == ExecuteError(ref[t]) = "none" /\ MapFound(user_id)
       IN  /\ inserts => Len(UserChannelMapping) < MaxMappings
           /\ UserChannelMapping' =
                  IF inserts
                  THEN Append(UserChannelMapping,
                              NewMapping(user_id, channel_id, server_id, handle))
                  ELSE UserChannelMapping
           /\ last' = Call("map_user_to_channel", handle, <<channel_id, server_id>>,
                           err, None, <<>>)
    /\ UNCHANGED <<stmt, class, pc, ref, returned, counts, alive, schema, Users,
                   Servers, Channels, clock>>

\* UPDATE Users SET solved_count, solved_problems, last_update_time
\* WHERE handle = ? (155-159)
UpdateRowAppends(u, handle, solved_problems) ==
    IF u.handle = handle
    THEN [u EXCEPT !.solved_count = Len(Loads(u.solved_problems) \o solved_problems),
                   !.solved_problems = Dumps(Loads(u.solved_problems) \o solved_problems),
                   !.last_update_time = clock]
    ELSE u
UpdateRowNoWhere(u, handle, solved_problems) ==
    [u EXCEPT !.solved_count = Len(solved_problems),
              !.solved_problems = Dumps(solved_problems),
              !.last_update_time = clock]
UpdateRowStaleCount(u, handle, solved_problems) ==
    IF u.handle = handle
    THEN [u EXCEPT !.solved_problems = Dumps(solved_problems),
                   !.last_update_time = clock]
    ELSE u
UpdateRowSetsCheckTime(u, handle, solved_problems) ==
    IF u.handle = handle
    THEN [u EXCEPT !.solved_count = Len(solved_problems),
                   !.solved_problems = Dumps(solved_problems),
                   !.last_check_time = clock,
                   !.last_update_time = clock]
    ELSE u
UpdateRow(u, handle, solved_problems) ==
    IF u.handle = handle
    THEN [u EXCEPT !.solved_count = Len(solved_problems),
                   !.solved_problems = Dumps(solved_problems),
                   !.last_update_time = clock]
    ELSE u

\* update_user_solved_problems (145-160)
update_user_solved_problems(t, handle, solved_problems) ==
    /\ Calls(t)
    /\ LET err == ExecuteError(ref[t])
       IN  /\ Users' = IF err = "none"
                       THEN [i \in 1..Len(Users) |->
                                UpdateRow(Users[i], handle, solved_problems)]
                       ELSE Users
           /\ last' = Call("update_user_solved_problems", handle, solved_problems,
                           err, None, <<>>)
    /\ UNCHANGED <<stmt, class, pc, ref, returned, counts, alive, schema, Servers,
                   Channels, UserChannelMapping, clock>>

\* the rows the four-way inner join (173-178) yields for one mapping row; ids
\* are primary keys, so each table has at most one matching row
JoinRowChannelServer(m, handle) ==
    LET us == SelectSeq(Users, LAMBDA u : u.id = m.user_id /\ u.handle = handle)
        cs == SelectSeq(Channels, LAMBDA c : c.id = m.channel_id)
        ss == IF cs = <<>> THEN <<>>
              ELSE SelectSeq(Servers, LAMBDA s : s.id = cs[1].server_id)
    IN  IF us = <<>> \/ cs = <<>> \/ ss = <<>> THEN <<>>
        ELSE << <<cs[1].id, cs[1].name, ss[1].id, ss[1].name>> >>
JoinRow(m, handle) ==
    LET us == SelectSeq(Users, LAMBDA u : u.id = m.user_id /\ u.handle = handle)
        cs == SelectSeq(Channels, LAMBDA c : c.id = m.channel_id)
        ss == SelectSeq(Servers, LAMBDA s : s.id = m.server_id)
    IN  IF us = <<>> \/ cs = <<>> \/ ss = <<>> THEN <<>>
        ELSE << <<cs[1].id, cs[1].name, ss[1].id, ss[1].name>> >>

RECURSIVE Join(_, _)
Join(i, handle) ==
    IF i > Len(UserChannelMapping) THEN <<>>
    ELSE JoinRow(UserChannelMapping[i], handle) \o Join(i + 1, handle)

\* get_user_channels (162-180): execute the join, fetchall
get_user_channels(t, handle) ==
    /\ Calls(t)
    /\ LET err == ExecuteError(ref[t])
       IN  last' = Call("get_user_channels", handle, <<>>, err, None,
                        IF err = "none" THEN Join(1, handle) ELSE <<>>)
    /\ UNCHANGED <<stmt, class, pc, ref, returned, counts, alive, tables, clock>>

\* get_user_id_by_handle (182-196)
get_user_id_by_handle(t, handle) ==
    /\ Calls(t)
    /\ LET err == ExecuteError(ref[t])
       IN  last' = Call("get_user_id_by_handle", handle, <<>>, err,
                        IF err = "none" THEN SelectId(handle) ELSE None, <<>>)
    /\ UNCHANGED <<stmt, class, pc, ref, returned, counts, alive, tables, clock>>

\* --------------------------------- the same operations, statement by statement
\* Between two statements of a call another thread may run its own on the
\* one connection and the one cursor all callers share (25-26).

\* the ids SELECT id FROM Users WHERE handle = ? (192-194) puts on the cursor
SelectIds(handle) ==
    LET result == SelectSeq(Users, LAMBDA u : u.handle = handle)
    IN  [i \in 1..Len(result) |-> result[i].id]

\* self.cursor.fetchone() and result[0] if result else None (195-196): the
\* next row waiting on the cursor, whichever statement put it there
FetchOne == IF resultset # <<>> THEN Head(resultset) ELSE None

\* self.cursor.execute of the SELECT (192-194), for the method op
ExecuteSelect(t, op, handle, ints) ==
    /\ Calls(t)
    /\ IF ExecuteError(ref[t]) # "none"
       THEN /\ last' = Call(op, handle, ints, ExecuteError(ref[t]), None, <<>>)
            /\ UNCHANGED <<pc, frame, resultset>>
       ELSE /\ resultset' = SelectIds(handle)
            /\ frame' = [frame EXCEPT ![t] =
                             Frame(op, handle, ints, SelectId(handle), None)]
            /\ pc' = [pc EXCEPT ![t] = "l195"]
            /\ last' = last
    /\ UNCHANGED <<pending, class, ref, returned, counts, alive, tables, clock>>

\* get_user_id_by_handle called by the thread itself (182-194)
Lookup192(t, handle) ==
    ExecuteSelect(t, "get_user_id_by_handle", handle, <<>>)

\* map_user_to_channel up to the execute inside its lookup (135, 192-194)
Map135(t, handle, channel_id, server_id) ==
    ExecuteSelect(t, "map_user_to_channel", handle, <<channel_id, server_id>>)

\* fetchone and return (195-196): to the caller, or to line 135
Fetch195(t) ==
    /\ alive /\ pc[t] = "l195"
    /\ resultset' = IF resultset # <<>> THEN Tail(resultset) ELSE resultset
    /\ IF frame[t].op = "get_user_id_by_handle"
       THEN /\ last' = Call(frame[t].op, frame[t].handle, <<>>, "none", FetchOne, <<>>)
            /\ frame' = [frame EXCEPT ![t] = NoFrame]
            /\ pc' = [pc EXCEPT ![t] = "out"]
       ELSE /\ frame' = [frame EXCEPT ![t].user_id = FetchOne]
            /\ pc' = [pc EXCEPT ![t] = "l136"]
            /\ last' = last
    /\ UNCHANGED <<pending, class, ref, returned, counts, alive, tables, clock>>

\* map_user_to_channel from the test of line 136: the INSERT (137-140), or
\* the ValueError (143)
Map136(t) ==
    /\ alive /\ pc[t] = "l136"
    /\ IF MapFound(frame[t].user_id)
       THEN /\ Len(UserChannelMapping) < MaxMappings
            /\ UserChannelMapping' =
                   Append(UserChannelMapping,
                          NewMapping(frame[t].user_id, frame[t].ints[1],
                                     frame[t].ints[2], frame[t].handle))
            /\ resultset' = <<>>
            /\ pending' = pending \cup {t}
            /\ pc' = [pc EXCEPT ![t] = "commit"]
            /\ UNCHANGED <<frame, last>>
       ELSE /\ last' = Call(frame[t].op, frame[t].handle, frame[t].ints,
                            "ValueError", None, <<>>)
            /\ frame' = [frame EXCEPT ![t] = NoFrame]
            /\ pc' = [pc EXCEPT ![t] = "out"]
            /\ UNCHANGED <<UserChannelMapping, resultset, pending>>
    /\ UNCHANGED <<class, ref, returned, counts, alive, schema, Users, Servers,
                   Channels, clock>>

\* add_user up to its execute (92-96)
AddUser93(t, handle) ==
    /\ Calls(t)
    /\ LET err == IF ExecuteError(ref[t]) # "none" THEN ExecuteError(ref[t])
                  ELSE IF UniqueViolation(handle) THEN "IntegrityError"
                  ELSE "none"
       IN  IF err # "none"
           THEN /\ last' = Call("add_user", handle, <<>>, err, None, <<>>)
                /\ UNCHANGED <<pc, frame, resultset, pending, Users>>
           ELSE /\ Users' = Append(Users, NewUser(handle))
                /\ resultset' = <<>>
                /\ pending' = pending \cup {t}
                /\ frame' = [frame EXCEPT ![t] = Frame("add_user", handle, <<>>, None, None)]
                /\ pc' = [pc EXCEPT ![t] = "commit"]
                /\ last' = last
    /\ UNCHANGED <<class, ref, returned, counts, alive, schema, Servers,
                   Channels, UserChannelMapping, clock>>

\* self.connection.commit() (97, 141) and return: everything written on the
\* connection since the last commit becomes durable
Commit(t) ==
    /\ alive /\ pc[t] = "commit"
    /\ pending' = {}
    /\ last' = Call(frame[t].op, frame[t].handle, frame[t].ints, "none", None, <<>>)
    /\ frame' = [frame EXCEPT ![t] = NoFrame]
    /\ pc' = [pc EXCEPT ![t] = "out"]
    /\ UNCHANGED <<resultset, class, ref, returned, counts, alive, tables, clock>>

\* ------------------------------------------------------------ specifications
New(t) ==
    \/ New21(t) \/ New21dcl(t) \/ New22(t) \/ New23(t) \/ New24(t)
    \/ New25(t) \/ New26(t) \/ New27(t) \/ New28(t) \/ New29(t)

\* Spec: every thread may be anywhere in Database(), in __exit__ or in a
\* call on the Users table, and the interpreter may exit
Next ==
    \/ \E t \in Threads :
          \/ New(t)
          \/ Exit(t)
          \/ \E h \in Handles : add_user(t, h)
          \/ \E h \in Handles : get_user_id_by_handle(t, h)
    \/ Del

Spec == Init /\ [][Next]_vars

\* SpecUsers: one caller thread constructs the store and works on the Users
\* table while time passes
Caller == 1

NextUsers ==
    \/ New(Caller)
    \/ Exit(Caller)
    \/ \E h \in Handles : add_user(Caller, h)
    \/ \E h \in Handles, p \in SolvedInputs :
           update_user_solved_problems(Caller, h, p)
    \/ \E h \in Handles : get_user_id_by_handle(Caller, h)
    \/ Tick

SpecUsers == Init /\ [][NextUsers]_vars

\* SpecChannels: one caller thread constructs the store and works on users,
\* servers, channels and their mappings
NextChannels ==
    \/ New(Caller)
    \/ Exit(Caller)
    \/ \E h \in Handles : add_user(Caller, h)
    \/ \E n \in ServerNames : add_server(Caller, n)
    \/ \E n \in ChannelNames, s \in ServerIds : add_channel(Caller, n, s)
    \/ \E h \in Handles, c \in ChannelIds, s \in ServerIds :
           map_user_to_channel(Caller, h, c, s)
    \/ \E h \in Handles : get_user_channels(Caller, h)
    \/ \E h \in Handles : get_user_id_by_handle(Caller, h)

SpecChannels == Init /\ [][NextChannels]_vars

\* SpecShared: every thread may be anywhere in Database() or between two
\* statements of add_user, map_user_to_channel or get_user_id_by_handle
NextShared ==
    \E t \in Threads :
        \/ New(t)
        \/ \E h \in Handles : AddUser93(t, h)
        \/ \E h \in Handles : Lookup192(t, h)
        \/ \E h \in Handles, c \in ChannelIds, s \in ServerIds : Map135(t, h, c, s)
        \/ Fetch195(t)
        \/ Map136(t)
        \/ Commit(t)

SpecShared == Init /\ [][NextShared]_vars

\* SpecRestart: one caller thread fills the store, the interpreter exits and
\* the program is started again on the same db.sqlite3
NextRestart ==
    \/ New(Caller)
    \/ \E h \in Handles : add_user(Caller, h)
    \/ \E n \in ServerNames : add_server(Caller, n)
    \/ Del
    \/ Restart

SpecRestart == Init /\ [][NextRestart]_vars

\* SpecAll: one caller thread constructs the store and calls every operation;
\* mappings are made to server 1 (SpecChannels has them to every server id)
UpdateInputs == {<<>>, <<3, 12>>}

NextAll ==
    \/ New(Caller)
    \/ Exit(Caller)
    \/ \E h \in Handles : add_user(Caller, h)
    \/ \E n \in ServerNames : add_server(Caller, n)
    \/ \E n \in ChannelNames, s \in ServerIds : add_channel(Caller, n, s)
    \/ \E h \in Handles, c \in ChannelIds :
           map_user_to_channel(Caller, h, c, 1)
    \/ \E h \in Handles, p \in UpdateInputs :
           update_user_solved_problems(Caller, h, p)
    \/ \E h \in Handles : get_user_channels(Caller, h)
    \/ \E h \in Handles : get_user_id_by_handle(Caller, h)

SpecAll == Init /\ [][NextAll]_vars

\* ------------------------------------------------------------------- claims
\* the store can execute a statement for the caller: cursor assigned,
\* connection open, tables created
Usable(t) == ref[t] # None /\ ExecuteError(ref[t]) = "none"

HasHandle(handle) == \E i \in 1..Len(Users) : Users[i].handle = handle

\* C1: every Database() call, sequential or racing, returns the same
\* instance, and the connection is opened and the schema bootstrapped at
\* most once.
C1_SingletonOnce ==
    /\ None \notin returned
    /\ Cardinality(returned) <= 1
    /\ \A t \in Threads : ref[t] # None => ref[t] = instance
    /\ Len(connection) <= 1
    /\ connects <= 1
    /\ bootstraps <= 1

\* C1 witness: a thread that passed the unsynchronised check while the store
\* was uninitialised holds the lock and re-checks, after another thread has
\* done the setup and been handed the instance.
C1_Witness ==
    /\ bootstraps = 1
    /\ \E t, u \in Threads :
           /\ pc[t] = "l23" /\ lock = t
           /\ ref[u] = instance /\ instance # None

\* C2: no two User rows share a handle, and add_user of a handle that is
\* already there raises the constraint violation and leaves Users as it was.
C2_UniqueRows ==
    \A i, j \in 1..Len(Users) : Users[i].handle = Users[j].handle => i = j

C2_DuplicateFails ==
    \A h \in Handles :
        (add_user(Caller, h) /\ Usable(Caller) /\ HasHandle(h))
            => (last'.err = "IntegrityError" /\ Users' = Users)

C2_UniqueHandle == []C2_UniqueRows /\ [][C2_DuplicateFails]_vars

\* C2 witness: add_user has just been refused for a handle that has its row.
C2_Witness ==
    /\ last.op = "add_user" /\ last.err = "IntegrityError"
    /\ Cardinality({i \in 1..Len(Users) : Users[i].handle = last.str}) = 1

\* C3: every User row's solved_count is the length of its stored
\* solved_problems; a row add_user has just inserted holds 0 and the empty list.
C3_CountIsLength ==
    /\ \A i \in 1..Len(Users) :
           Users[i].solved_count = Len(Loads(Users[i].solved_problems))
    /\ (last.op = "add_user" /\ last.err = "none") =>
           /\ Users[Len(Users)].handle = last.str
           /\ Users[Len(Users)].solved_count = 0
           /\ Loads(Users[Len(Users)].solved_problems) = <<>>

\* C3 witness: an update has stored a two-element list.
C3_Witness ==
    \E i \in 1..Len(Users) :
        Users[i].solved_count = 2 /\ Len(Loads(Users[i].solved_problems)) = 2

\* C4: map_user_to_channel for a handle no User has raises the not-found
\* error and leaves every table as it was.
C4_UnknownHandle ==
    \A h \in Handles, c \in ChannelIds, s \in ServerIds :
        (map_user_to_channel(Caller, h, c, s) /\ Usable(Caller) /\ ~HasHandle(h))
            => (last'.err = "ValueError" /\ UNCHANGED tables)

C4_MapNotFound == [][C4_UnknownHandle]_vars

\* C4 witness: the not-found error has been raised while another user exists.
C4_Witness ==
    /\ last.op = "map_user_to_channel" /\ last.err = "ValueError"
    /\ Users # <<>> /\ ~HasHandle(last.str)

\* C5: every Membership row's user_id is the id of an existing User row, the
\* one with the handle given to the call that inserted the row (by). It holds
\* of SpecChannels, where calls do not overlap, and not of SpecShared.
C5_MembershipUser ==
    \A i \in 1..Len(UserChannelMapping) :
        \E j \in 1..Len(Users) :
            /\ Users[j].id = UserChannelMapping[i].user_id
            /\ Users[j].handle = UserChannelMapping[i].by

\* C6: update_user_solved_problems for a handle no User has returns without
\* raising and leaves every row of every table as it was.
C6_UnknownHandle ==
    \A h \in Handles, p \in SolvedInputs :
        (update_user_solved_problems(Caller, h, p) /\ Usable(Caller) /\ ~HasHandle(h))
            => (last'.err = "none" /\ UNCHANGED tables)

C6_UpdateNoOp == [][C6_UnknownHandle]_vars

\* C6 witness: such an update has returned while another user's row exists.
C6_Witness ==
    /\ last.op = "update_user_solved_problems" /\ last.err = "none"
    /\ last.ints # <<>>
    /\ Users # <<>> /\ ~HasHandle(last.str)

\* the Membership rows get_user_channels(handle) must report: the user with
\* that handle, an existing channel and an existing server
Reported(handle) ==
    {i \in 1..Len(UserChannelMapping) :
        /\ \E j \in 1..Len(Users) :
               Users[j].id = UserChannelMapping[i].user_id /\ Users[j].handle = handle
        /\ \E j \in 1..Len(Channels) : Channels[j].id = UserChannelMapping[i].channel_id
        /\ \E j \in 1..Len(Servers) : Servers[j].id = UserChannelMapping[i].server_id}

\* the tuple for Membership row i: names looked up by the row's own ids
TupleOf(i) ==
    LET m == UserChannelMapping[i]
        c == CHOOSE j \in 1..Len(Channels) : Channels[j].id = m.channel_id
        s == CHOOSE j \in 1..Len(Servers) : Servers[j].id = m.server_id
    IN  <<m.channel_id, Channels[c].name, m.server_id, Servers[s].name>>

\* C7: get_user_channels returns one tuple (channel_id, channel_name,
\* server_id, server_name) per Membership row of that user whose channel and
\* server exist, the server being the Membership's, and nothing else.
C7_JoinResult ==
    (last.op = "get_user_channels" /\ last.err = "none") =>
        /\ Len(last.rows) = Cardinality(Reported(last.str))
        /\ \A i \in Reported(last.str) :
               Cardinality({k \in 1..Len(last.rows) : last.rows[k] = TupleOf(i)})
                 = Cardinality({j \in Reported(last.str) : TupleOf(j) = TupleOf(i)})
        /\ (~HasHandle(last.str) => last.rows = <<>>)

\* C7 witness: a tuple was returned whose server is not the channel's own.
C7_Witness ==
    /\ last.op = "get_user_channels" /\ last.err = "none"
    /\ \E k \in 1..Len(last.rows), j \in 1..Len(Channels) :
           /\ Channels[j].id = last.rows[k][1]
           /\ Channels[j].server_id # last.rows[k][3]

\* C8: get_user_id_by_handle returns the id of the User with the handle, or
\* None when there is none, and never raises, in every reachable state.
C8_LookupNeverRaises ==
    last.op = "get_user_id_by_handle" =>
        /\ last.err = "none"
        /\ \/ last.id = None /\ ~HasHandle(last.str)
           \/ \E i \in 1..Len(Users) :
                  Users[i].handle = last.str /\ Users[i].id = last.id

\* C9: after update_user_solved_problems(h, seq) the stored text of h decodes
\* to seq, element for element, and solved_count is Len(seq), whatever the
\* row held before.
C9_RoundTrip ==
    (last.op = "update_user_solved_problems" /\ last.err = "none") =>
        \A i \in 1..Len(Users) :
            Users[i].handle = last.str =>
                /\ Loads(Users[i].solved_problems) = last.ints
                /\ Users[i].solved_count = Len(last.ints)

\* C9 witness: the row of an existing user holds the list just written, in
\* its order.
C9_Witness ==
    /\ last.op = "update_user_solved_problems" /\ last.err = "none"
    /\ last.ints = <<12, 3>>
    /\ \E i \in 1..Len(Users) :
           Users[i].handle = last.str /\ Loads(Users[i].solved_problems) = <<12, 3>>

\* C10: the connection goes from open to closed at most once, it is closed
\* once the instance has been torn down, and __exit__ / __del__ never raise,
\* also on a connection that is closed or was never opened.
C10_TeardownOnce ==
    /\ closes <= 1
    /\ closes = Cardinality({o \in 1..Len(connection) : connection[o] = "closed"})
    /\ last.op \in {"__exit__", "__del__"} => last.err = "none"
    /\ (last.op \in {"__exit__", "__del__"} /\ last.str # "unset") => closes = 1
    /\ ~alive => connection[instance] = "closed"

\* C10 witness: the instance is torn down after __exit__ had closed it.
C10_Witness ==
    /\ last.op = "__del__" /\ last.str = "closed" /\ closes = 1

\* C10 witness of the never-opened case: __exit__ found no connection.
C10_WitnessUnset ==
    /\ last.op = "__exit__" /\ last.str = "unset" /\ last.err = "none"

\* C11: when no call is in progress nothing uncommitted is pending on the
\* connection, and a call's commit makes durable only what that call wrote.
C11_NothingPending ==
    (\A t \in Threads : pc[t] = "out") => pending = {}

C11_CommitsOwn ==
    \A t \in Threads :
        (pc[t] = "commit" /\ pc'[t] = "out") => pending \subseteq {t}

C11_OwnCommit == []C11_NothingPending /\ [][C11_CommitsOwn]_vars

\* C12: the schema bootstrap run against a store that already holds the four
\* tables (the program started again) does not raise and leaves every table
\* and every row as it was.
C12_BootstrapStep ==
    \A t \in Threads :
        (pc[t] = "l27" /\ pc'[t] # "l27" /\ schema /\ connection[instance] = "open")
            => /\ pc'[t] = "l28"
               /\ last' = last
               /\ UNCHANGED tables

C12_BootstrapIdempotent == [][C12_BootstrapStep]_vars

\* the bootstrap of a later process has run on a store that held rows
C12_Witness ==
    /\ pc[Caller] = "l28" /\ bootstraps = 1
    /\ Users # <<>> /\ Servers # <<>>

\* C13: no step of any operation deletes a row: each table keeps the rows it
\* had, in each table a row keeps its id, and no id is given to a second row.
SameIds(old, new) ==
    /\ Len(new) >= Len(old)
    /\ \A i \in 1..Len(old) : new[i].id = old[i].id

DistinctIds(table) ==
    \A i, j \in 1..Len(table) : table[i].id = table[j].id => i = j

C13_RowsKept ==
    /\ SameIds(Users, Users') /\ SameIds(Servers, Servers')
    /\ SameIds(Channels, Channels')
    /\ SameIds(UserChannelMapping, UserChannelMapping')

C13_IdsDistinct ==
    /\ DistinctIds(Users) /\ DistinctIds(Servers)
    /\ DistinctIds(Channels) /\ DistinctIds(UserChannelMapping)

C13_NeverDeleted == []C13_IdsDistinct /\ [][C13_RowsKept]_vars

\* every table holds rows, two of them where the bounds allow, and an update
\* has rewritten a User row
C13_Witness ==
    /\ Len(Users) = 2 /\ Servers # <<>> /\ Channels # <<>>
    /\ Len(UserChannelMapping) >= 2
    /\ \E i \in 1..Len(Users) : Users[i].solved_count > 0

\* C14: a User row keeps the last_check_time add_user gave it through every
\* later operation, and its last_update_time is never earlier than its
\* last_check_time.
C14_CheckTimeKept ==
    \A i \in 1..Len(Users) : Users'[i].last_check_time = Users[i].last_check_time

C14_UpdateNotEarlier ==
    \A i \in 1..Len(Users) : Users[i].last_update_time >= Users[i].last_check_time

C14_Times == []C14_UpdateNotEarlier /\ [][C14_CheckTimeKept]_vars

\* a user added at one reading of the clock and updated at a later one
C14_Witness ==
    /\ last.op = "update_user_solved_problems" /\ last.err = "none"
    /\ \E i \in 1..Len(Users) :
           /\ Users[i].handle = last.str
           /\ Users[i].last_update_time > Users[i].last_check_time

\* C15: map_user_to_channel for a handle some User has returns without
\* raising and appends exactly one Membership row (that user's id, channel_id,
\* server_id), whether or not a Channel or a Server with those ids exists and
\* whether or not the same association is already stored.
IdOf(handle) ==
    Users[CHOOSE j \in 1..Len(Users) : Users[j].handle = handle].id

C15_ExistingHandle ==
    \A h \in Handles, c \in ChannelIds, s \in ServerIds :
        (map_user_to_channel(Caller, h, c, s) /\ Usable(Caller) /\ HasHandle(h))
            => /\ last'.err = "none"
               /\ Len(UserChannelMapping') = Len(UserChannelMapping) + 1
               /\ SubSeq(UserChannelMapping', 1, Len(UserChannelMapping))
                      = UserChannelMapping
               /\ LET row == UserChannelMapping'[Len(UserChannelMapping')]
                  IN  /\ row.user_id = IdOf(h)
                      /\ row.channel_id = c
                      /\ row.server_id = s
               /\ UNCHANGED <<Users, Servers, Channels>>

C15_MapInsertsOne == [][C15_ExistingHandle]_vars

\* the same association stored twice, for a channel and a server that no
\* Channel row and no Server row has
C15_Witness ==
    /\ Len(UserChannelMapping) = 2
    /\ last.op = "map_user_to_channel" /\ last.err = "none"
    /\ UserChannelMapping[1].user_id = UserChannelMapping[2].user_id
    /\ UserChannelMapping[1].channel_id = UserChannelMapping[2].channel_id
    /\ UserChannelMapping[1].server_id = UserChannelMapping[2].server_id
    /\ \A i \in 1..Len(Channels) : Channels[i].id # UserChannelMapping[2].channel_id
    /\ \A i \in 1..Len(Servers) : Servers[i].id # UserChannelMapping[2].server_id

\* C16: add_user, add_server, add_channel, map_user_to_channel,
\* get_user_channels and get_user_id_by_handle leave every existing User row
\* as it was; update_user_solved_problems(h, seq) changes nothing but
\* solved_count, solved_problems and last_update_time of the row with handle
\* h, and no row of Servers, Channels or UserChannelMapping.
OtherOperation ==
    \/ \E h \in Handles : add_user(Caller, h)
    \/ \E n \in ServerNames : add_server(Caller, n)
    \/ \E n \in ChannelNames, s \in ServerIds : add_channel(Caller, n, s)
    \/ \E h \in Handles, c \in ChannelIds, s \in ServerIds :
           map_user_to_channel(Caller, h, c, s)
    \/ \E h \in Handles : get_user_channels(Caller, h)
    \/ \E h \in Handles : get_user_id_by_handle(Caller, h)

C16_OthersKeepUsers ==
    \/ /\ Len(Users') >= Len(Users)
       /\ SubSeq(Users', 1, Len(Users)) = Users
    \/ ~OtherOperation

C16_UpdateFrame ==
    \A h \in Handles :
        \/ /\ Len(Users') = Len(Users)
           /\ \A i \in 1..Len(Users) :
                  /\ Users[i].handle # h => Users'[i] = Users[i]
                  /\ Users'[i].id = Users[i].id
                  /\ Users'[i].handle = Users[i].handle
                  /\ Users'[i].last_check_time = Users[i].last_check_time
           /\ UNCHANGED <<Servers, Channels, UserChannelMapping>>
        \/ \A p \in UpdateInputs : ~update_user_solved_problems(Caller, h, p)

C16_UsersFrame == [][C16_OthersKeepUsers /\ C16_UpdateFrame]_vars

\* an update has rewritten one of two User rows whose other row had been
\* updated before, with rows in the other three tables
C16_Witness ==
    /\ last.op = "update_user_solved_problems" /\ last.err = "none"
    /\ Len(Users) = 2
    /\ \E i, j \in 1..2 :
           /\ Users[i].handle = last.str /\ Users[i].solved_count = 0
           /\ Users[j].handle # last.str /\ Users[j].solved_count > 0
    /\ Servers # <<>> /\ Channels # <<>> /\ UserChannelMapping # <<>>

\* C17: a call of Database() takes the lock only after its unsynchronised
\* check of line 21 found no instance and _dcl unset, it enters the one-time
\* setup only after finding no instance again while holding the lock, and a
\* call that starts once _dcl is set goes straight to the return and never
\* takes the lock.
C17_Step ==
    \A t \in Threads :
        /\ (lock' = t /\ lock # t) => (lock = None /\ pc[t] = "l22")
        /\ (pc'[t] = "l22" /\ pc[t] # "l22") => (pc[t] = "l21dcl" /\ ~dcl)
        /\ (pc'[t] = "l21dcl" /\ pc[t] # "l21dcl") => (pc[t] = "out" /\ instance = None)
        /\ (pc'[t] = "l24" /\ pc[t] # "l24")
               => (pc[t] = "l23" /\ lock = t /\ instance = None)
        /\ (dcl /\ pc[t] = "out" /\ pc'[t] # "out") => pc'[t] = "l29"

C17_DoubleChecked == [][C17_Step]_vars

\* one thread that passed the first check before the setup holds the lock and
\* is about to find the instance at line 23; another, calling again after the
\* setup, is at the return without having taken the lock
C17_Witness ==
    \E t, u \in Threads :
        /\ pc[t] = "l23" /\ lock = t /\ instance # None /\ dcl
        /\ pc[u] = "l29" /\ ref[u] = instance

\* C18: the instance a call of Database() has returned to a thread has its
\* connection and its cursor set and the schema bootstrap done, also when
\* the call raced with the first caller's setup.
C18_ReturnedReady ==
    \A t \in Threads :
        ref[t] # None =>
            /\ connection[ref[t]] # "unset"
            /\ cursor[ref[t]]
            /\ schema /\ bootstraps >= 1

\* C19: with threads interleaving on the shared cursor, the fetchone of a
\* lookup gives what the lookup's own SELECT found; map_user_to_channel(h, c,
\* s) inserts only a row carrying the id of the user with handle h, and
\* raises not-found only if its SELECT found no user with handle h.
C19_Step ==
    \A t \in Threads :
        /\ (pc[t] = "l195" /\ pc'[t] = "out") => last'.id = frame[t].own
        /\ (pc[t] = "l195" /\ pc'[t] = "l136") => frame'[t].user_id = frame[t].own
        /\ (pc[t] = "l136" /\ pc'[t] = "commit")
               => \E j \in 1..Len(Users) :
                      /\ Users[j].handle = frame[t].handle
                      /\ Users[j].id = UserChannelMapping'[Len(UserChannelMapping')].user_id
        /\ (pc[t] = "l136" /\ pc'[t] = "out") => frame[t].own = None

C19_OwnResult == [][C19_Step]_vars

\* C20: a connection closed by __exit__ stays closed: a later call of
\* Database() returns the same instance, opens no connection and runs no
\* bootstrap, and every store operation called after the close raises.
StoreOperations ==
    {"add_user", "add_server", "add_channel", "map_user_to_channel",
     "update_user_solved_problems", "get_user_channels", "get_user_id_by_handle"}

Closed == \E o \in 1..Len(connection) : connection[o] = "closed"

C20_Step ==
    /\ \A o \in 1..Len(connection) :
           connection[o] = "closed" => connection'[o] = "closed"
    /\ Closed => /\ instance' = instance
                 /\ connection' = connection
                 /\ connects' = connects /\ bootstraps' = bootstraps
                 /\ \A t \in Threads :
                        (pc[t] = "l29" /\ pc'[t] = "out") => ref'[t] = instance

C20_NoSuccess ==
    (Closed /\ last.op \in StoreOperations) => last.err # "none"

C20_ClosedForGood == []C20_NoSuccess /\ [][C20_Step]_vars

\* after the scope exit of a store that holds a user, Database() has been
\* called again and has returned the instance whose connection is closed
C20_Witness ==
    /\ last.op = "Database" /\ last.err = "none"
    /\ ref[Caller] = last.id /\ connection[last.id] = "closed"
    /\ closes = 1 /\ connects = 1 /\ Users # <<>>

\* a store operation called after the scope exit has raised
C20_WitnessRaised ==
    /\ Closed /\ last.op = "add_user" /\ last.err = "ProgrammingError"

====
